---- MODULE Spec2Model ----
(***************************************************************************)
(* A model of the ValoPro match bot: the match normaliser                  *)
(* (utils/vlr_api.py, cogs/tracker.py), the interaction response protocol  *)
(* of the slash commands and the alert scheduler (cogs/tracker.py).        *)
(*                                                                         *)
(* Python values are tagged records [t, s, r, n]: t is the Python type,    *)
(* s the text of a string as a sequence of one-character strings (for a    *)
(* dict: the value under its "name" key), r the value under a dict's       *)
(* "region" key, n the integer (for a dict or a list: its length).         *)
(***************************************************************************)
EXTENDS Integers, Sequences, FiniteSets, TLC

VARIABLES
    \* ---- normaliser harness
    raw,        \* the raw segment handed to safe_normalize
    liveHint,   \* the live_flag argument
    nmOut,      \* what safe_normalize returned ("pending" before the call)
    nmAgain,    \* what safe_normalize returned for the record it had returned
    fnIn,       \* the arguments handed to a function called on its own
    fnOut,      \* what that function returned
    \* ---- alert scheduler (Tracker.announce_loop)
    announced,  \* Tracker._announced_ids
    spc,        \* position of the scheduler task
    envChan,    \* os.getenv("ALERT_CHANNEL_ID") as the tick reads it
    now,        \* int(time.time()) read by the running tick
    clock,      \* wall clock
    todo,       \* the segments of the running tick not yet iterated
    posts,      \* log of ch.send attempts of the scheduler
    ticks,      \* number of ticks started
    upstream,   \* the upstream's upcoming segments
    \* ---- one command invocation
    cmd,        \* the command invoked
    query,      \* its filter/query argument
    pc,         \* position of the handler
    responded,  \* the interaction has been responded to
    msgs,       \* the messages the invocation created, in order
    ackMsg,     \* index in msgs of the message quick_ack returned (0: none)
    oplog,      \* log of platform calls and fetches of the invocation
    liveRaw,    \* result of get_live
    upRaw,      \* result of get_upcoming
    count,      \* its count argument
    pending,    \* the (content, embeds) safe_edit was called with
    exc         \* the exception being handled by the handler's except clause

normVars  == <<raw, liveHint, nmOut, nmAgain, fnIn, fnOut>>
schedVars == <<announced, spc, envChan, now, clock, todo, posts, ticks, upstream>>
cmdVars   == <<cmd, query, count, pc, responded, msgs, ackMsg, oplog, liveRaw, upRaw, pending, exc>>
vars      == <<normVars, schedVars, cmdVars>>

(***************************************************************************)
(* Python values                                                           *)
(***************************************************************************)
V(t, s, r, n) == [t |-> t, s |-> s, r |-> r, n |-> n]
Absent    == V("absent", <<>>, <<>>, 0)     \* the key is not in the dict
PyNone    == V("none", <<>>, <<>>, 0)
PyStr(s)    == V("str", s, <<>>, 0)
PyInt(n)    == V("int", <<>>, <<>>, n)
PyBool(b)   == V("bool", <<>>, <<>>, IF b THEN 1 ELSE 0)
PyDict(name, region) == V("dict", name, region, 1)   \* a dict with at least one key
EmptyDict == V("dict", <<>>, <<>>, 0)
PyList(n)   == V("list", <<>>, <<>>, n)

\* bool(v)
Truthy(v) ==
    CASE v.t \in {"absent", "none"} -> FALSE
      [] v.t = "str" -> v.s # <<>>
      [] OTHER -> v.n # 0

\* a or b
Or(a, b) == IF Truthy(a) THEN a ELSE b

\* m.get(k) and m.get(k, d)
Get(m, k) == IF m[k].t = "absent" THEN PyNone ELSE m[k]
GetD(m, k, d) == IF m[k].t = "absent" THEN d ELSE m[k]

\* d.get("name") and d.get("region") of a dict value
SubName(d)   == IF d.s = <<>> THEN PyNone ELSE PyStr(d.s)
SubRegion(d) == IF d.r = <<>> THEN PyNone ELSE PyStr(d.r)

Digits == <<"0", "1", "2", "3", "4", "5", "6", "7", "8", "9">>
DigitVal(c) == (CHOOSE i \in 1..10 : Digits[i] = c) - 1
IsDigit(c) == \E i \in 1..10 : Digits[i] = c

RECURSIVE NatToText(_)
NatToText(n) == IF n < 10 THEN <<Digits[n + 1]>>
                ELSE NatToText(n \div 10) \o <<Digits[(n % 10) + 1]>>

\* str(n) of an int
IntToText(n) == IF n < 0 THEN <<"-">> \o NatToText(-n) ELSE NatToText(n)

RECURSIVE TextToNat(_)
TextToNat(s) == IF s = <<>> THEN 0
                ELSE 10 * TextToNat(SubSeq(s, 1, Len(s) - 1)) + DigitVal(s[Len(s)])

\* int(v) raises (ValueError, TypeError)
IntRaises(v) ==
    CASE v.t \in {"int", "bool"} -> FALSE
      [] v.t = "str" -> v.s = <<>> \/ \E i \in 1..Len(v.s) : ~IsDigit(v.s[i])
      [] OTHER -> TRUE

\* int(v) where it does not raise
IntOf(v) == IF v.t = "str" THEN TextToNat(v.s) ELSE v.n

\* the text an f-string gives for a str or an int
Fmt(v) == IF v.t = "int" THEN IntToText(v.n) ELSE v.s

(***************************************************************************)
(* Raw segments and normalised matches                                     *)
(***************************************************************************)
RawKeys == {"team1", "team_1", "team2", "team_2", "tournament", "event",
            "match_event", "region", "url", "match_page", "match_id", "id",
            "status", "time_unix", "unix_time", "unix_timestamp", "score",
            "maps", "score1", "score2"}

\* a dict segment with no keys; shape is the Python type of the segment
EmptySeg == [k \in RawKeys \cup {"shape"} |->
                IF k = "shape" THEN PyStr(<<"d", "i", "c", "t">>) ELSE Absent]
IsDictSeg(m) == m.shape = EmptySeg.shape
NonDictSeg(kind) == [EmptySeg EXCEPT !.shape = PyStr(kind)]

NmKeys == {"team1", "team2", "event", "status", "time_unix", "match_id",
           "url", "score", "region", "live"}
NoneNm  == [k \in NmKeys \cup {"t"} |-> IF k = "t" THEN PyNone ELSE Absent]
EmptyNm == [k \in NmKeys \cup {"t"} |-> IF k = "t" THEN EmptyDict ELSE Absent]
IsNoneNm(nm) == nm.t.t = "none"

VlrPrefix == <<"h", "t", "t", "p", "s", ":", "/", "/", "w", "w", "w", ".",
               "v", "l", "r", ".", "g", "g", "/">>

\* the dates strptime("%Y-%m-%d %H:%M:%S") accepts, with their timestamps
DateA == <<"1", "9", "7", "0", "-", "0", "1", "-", "0", "1", " ",
           "0", "0", ":", "0", "1", ":", "0", "0">>
DateATime == 60

parse_unix(ts) ==
    CASE ts.t = "none" -> PyNone
      [] ts.t = "int" -> ts
      [] ts.t = "str" /\ ts.s = DateA -> PyInt(DateATime)
      [] OTHER -> PyNone

\* datetime.strptime(ts, "%Y-%m-%d %H:%M:%S") raises (TypeError, ValueError)
strptime_raises(ts) == ~(ts.t = "str" /\ ts.s = DateA)

\* parse_unix with its strptime call outside the try
parse_unix_raises_Unguarded(ts) ==
    ts.t \notin {"none", "int"} /\ strptime_raises(ts)

\* parse_unix(ts) raises: the strptime call is inside try/except Exception
parse_unix_raises(ts) ==
    ts.t \notin {"none", "int"} /\ strptime_raises(ts) /\ FALSE

\* normalize_match(m) raises: a .get on a non-dict, or int() of a bad time
StrictTime(m) == Or(Or(Get(m, "time_unix"), Get(m, "unix_time")), PyInt(0))
normalize_match_raises(m) ==
    \/ GetD(m, "team1", EmptyDict).t # "dict"
    \/ GetD(m, "team2", EmptyDict).t # "dict"
    \/ GetD(m, "tournament", EmptyDict).t # "dict"
    \/ Truthy(StrictTime(m)) /\ IntRaises(StrictTime(m))

normalize_match(m) ==
    LET team1 == Or(Or(SubName(GetD(m, "team1", EmptyDict)), GetD(m, "team_1", PyStr(<<>>))), PyStr(<<>>))
        team2 == Or(Or(SubName(GetD(m, "team2", EmptyDict)), GetD(m, "team_2", PyStr(<<>>))), PyStr(<<>>))
        event == Or(Or(SubName(GetD(m, "tournament", EmptyDict)), GetD(m, "event", PyStr(<<>>))), PyStr(<<>>))
        status == GetD(m, "status", PyStr(<<>>))
        time_unix == StrictTime(m)
        match_id == Or(Or(Get(m, "match_id"), Get(m, "id")), PyStr(<<>>))
        url == Or(Get(m, "url"),
                  IF Truthy(match_id) THEN PyStr(VlrPrefix \o Fmt(match_id)) ELSE PyStr(<<>>))
        score == Or(Get(m, "score"), GetD(m, "maps", PyList(0)))
        region == Or(Or(SubRegion(GetD(m, "tournament", EmptyDict)), GetD(m, "region", PyStr(<<>>))), PyStr(<<>>))
    IN [t |-> PyDict(<<>>, <<>>), team1 |-> team1, team2 |-> team2, event |-> event,
        status |-> status,
        time_unix |-> IF Truthy(time_unix) THEN PyInt(IntOf(time_unix)) ELSE PyInt(0),
        match_id |-> match_id, url |-> url, score |-> score, region |-> region,
        live |-> Absent]

\* the except branch of safe_normalize: the permissive field-by-field decode
permissive_decode(m) ==
    LET s1 == Get(m, "score1")
        s2 == Get(m, "score2")
        tu0 == Get(m, "time_unix")
        tu == IF Truthy(tu0) THEN tu0 ELSE parse_unix(Get(m, "unix_timestamp"))
    IN [EmptyNm EXCEPT
          !.t = PyDict(<<>>, <<>>),
          !.team1 = Or(Or(Get(m, "team1"), Get(m, "team_1")), PyStr(<<"?">>)),
          !.team2 = Or(Or(Get(m, "team2"), Get(m, "team_2")), PyStr(<<"?">>)),
          !.event = Or(Or(Get(m, "event"), Get(m, "match_event")), PyStr(<<>>)),
          !.region = Or(Get(m, "region"), PyStr(<<>>)),
          !.url = Or(Or(Get(m, "url"), Get(m, "match_page")), PyStr(<<>>)),
          !.score = IF s1.t # "none" /\ s2.t # "none"
                    THEN PyStr(Fmt(s1) \o <<"-">> \o Fmt(s2)) ELSE Absent,
          !.time_unix = IF Truthy(tu) THEN tu ELSE Absent]

\* the except branch of safe_normalize raises: only parse_unix could
permissive_decode_raises(m) ==
    /\ ~Truthy(Get(m, "time_unix"))
    /\ parse_unix_raises(Get(m, "unix_timestamp"))

\* nm["live"] = live_flag when live_flag is not None
WithLive(nm, live_flag) ==
    IF live_flag.t # "none" THEN [nm EXCEPT !.live = live_flag] ELSE nm

safe_normalize(m, live_flag) ==
    IF ~IsDictSeg(m) THEN NoneNm
    ELSE IF ~normalize_match_raises(m) THEN WithLive(normalize_match(m), live_flag)
    ELSE WithLive(permissive_decode(m), live_flag)

\* safe_normalize(m) raises: an exception of the except branch escapes
safe_normalize_raises(m) ==
    IsDictSeg(m) /\ normalize_match_raises(m) /\ permissive_decode_raises(m)

\* a record safe_normalize returned, handed to it again as its argument
AsSeg(nm) ==
    [k \in RawKeys \cup {"shape"} |->
        IF k = "shape"
        THEN (IF IsNoneNm(nm) THEN PyStr(<<"n", "o", "n", "e">>) ELSE EmptySeg.shape)
        ELSE IF k \in NmKeys THEN nm[k] ELSE Absent]

(***************************************************************************)
(* Rendering                                                               *)
(***************************************************************************)
Now_  == <<"n", "o", "w">>

\* fmt_delta with "now" for negative values only
fmt_delta_NowBelowZero(seconds) ==
    IF seconds < 0 THEN Now_
    ELSE LET m0 == seconds \div 60
             h  == m0 \div 60
             m  == m0 % 60
         IN IF h # 0 THEN IntToText(h) \o <<"h", " ">> \o IntToText(m) \o <<"m">>
            ELSE IntToText(m) \o <<"m">>

\* fmt_delta(seconds)
fmt_delta(seconds) ==
    IF seconds <= 0 THEN Now_
    ELSE LET m0 == seconds \div 60
             h  == m0 \div 60
             m  == m0 % 60
         IN IF h # 0 THEN IntToText(h) \o <<"h", " ">> \o IntToText(m) \o <<"m">>
            ELSE IntToText(m) \o <<"m">>

\* team = t1 if isinstance(t1, str) else (t1 or {}).get('name', '?')
EmbedTeamRaises(t1) == Truthy(t1) /\ t1.t \notin {"str", "dict"}
EmbedTeam(t1) ==
    IF t1.t = "str" THEN t1.s
    ELSE IF Truthy(t1) /\ t1.s # <<>> THEN t1.s
    ELSE <<"?">>

\* the value shown in the "Starts In" field is computed from m['time_unix']
EmbedTime(m) == Or(Get(m, "time_unix"), parse_unix(PyNone))

make_embed_raises(m, live) ==
    \/ EmbedTeamRaises(Get(m, "team1"))
    \/ EmbedTeamRaises(Get(m, "team2"))
    \/ /\ ~(Truthy(live) /\ Truthy(Get(m, "score")))
       /\ Truthy(EmbedTime(m))
       /\ IntRaises(EmbedTime(m))

\* make_embed_from_match(m, live) rendered at time t; the description's parts
\* are kept as separate fields
make_embed_from_match(m, live, t) ==
    LET showScore == Truthy(live) /\ Truthy(Get(m, "score"))
        tu == EmbedTime(m)
    IN [title |-> EmbedTeam(Get(m, "team1")) \o <<" ", "v", "s", " ">> \o EmbedTeam(Get(m, "team2")),
        event |-> Get(m, "event"),
        region |-> Get(m, "region"),
        url |-> Get(m, "url"),
        live |-> Truthy(live),
        field |-> IF showScore THEN "Score"
                  ELSE IF Truthy(tu) THEN "Starts In" ELSE "",
        value |-> IF showScore THEN Get(m, "score")
                  ELSE IF Truthy(tu) THEN PyStr(fmt_delta(IntOf(tu) - t))
                  ELSE PyNone]

(***************************************************************************)
(* Alert scheduler: Tracker.announce_loop                                  *)
(***************************************************************************)
ALERT_LEAD_MINUTES == 30
AlertLeadSeconds == ALERT_LEAD_MINUTES * 60
TickSeconds == 600
MaxTicks == 2
MaxSegs == 2

\* seconds a fetch may take before the tick reads the time
Latencies == {0, 1}

\* the values of ALERT_CHANNEL_ID: unset, empty, the id of a channel the bot
\* can see, a well-formed id of no such channel, text that is no integer
EnvChans == {"unset", "empty", "channel", "unresolvable", "malformed"}

T_A == <<"A">>
T_B == <<"B">>
SegStrict(id, tu) ==
    [EmptySeg EXCEPT !.team1 = PyDict(T_A, <<>>), !.team2 = PyDict(T_B, <<>>),
                     !.match_id = id, !.time_unix = tu]
SegFlat(id, tu) ==
    [EmptySeg EXCEPT !.team1 = PyStr(T_A), !.team2 = PyStr(T_B),
                     !.match_id = id, !.time_unix = tu]

SchedPool ==
    { SegStrict(PyStr(<<"7">>), PyInt(AlertLeadSeconds)),
      SegStrict(PyStr(<<"8">>), PyInt(AlertLeadSeconds + 1)),
      SegStrict(Absent, PyInt(TickSeconds)),
      SegStrict(PyStr(<<"9">>), Absent),
      SegFlat(PyStr(<<"5">>), PyInt(AlertLeadSeconds)),
      SegFlat(PyStr(<<"6">>), PyStr(<<"s", "o", "o", "n">>)),
      NonDictSeg(<<"s", "t", "r">>) }

RECURSIVE SeqsUpTo(_, _)
SeqsUpTo(S, n) ==
    IF n = 0 THEN {<<>>}
    ELSE LET shorter == SeqsUpTo(S, n - 1)
         IN shorter \cup {Append(q, x) : q \in shorter, x \in S}

\* the upstream identifier a raw segment carries (PyNone-like when it has none)
RawId(m) == Or(Or(Get(m, "match_id"), Get(m, "id")), PyStr(<<>>))

SchedInit ==
    /\ announced = {}
    /\ spc = "idle"
    /\ envChan \in EnvChans
    /\ now = 0
    /\ clock = 0
    /\ todo = 0
    /\ posts = <<>>
    /\ ticks = 0
    /\ upstream \in SeqsUpTo(SchedPool, MaxSegs)

\* a window that leaves out its far end
InLeadWindow_Exclusive(seconds) == 0 <= seconds /\ seconds < AlertLeadSeconds

\* the window test of line 311
InLeadWindow(seconds) == 0 <= seconds /\ seconds <= AlertLeadSeconds

\* the dedup test of line 313
AlreadyAnnounced(mid, ids) == Truthy(mid) /\ mid \in ids

\* the set replaced by the new id
Remember_Replace(mid, ids) == IF Truthy(mid) THEN {mid} ELSE ids

\* an add without the test of line 316
Remember_Always(mid, ids) == ids \cup {mid}

\* lines 316-317
Remember(mid, ids) == IF Truthy(mid) THEN ids \cup {mid} ELSE ids

\* the id remembered before ch.send is awaited
AnnouncedAfterSend_AddFirst(mid, ids, sent) == Remember(mid, ids)

\* lines 315-317: the add follows the await of ch.send, which an exception
\* of ch.send leaves for the except of line 318
AnnouncedAfterSend(mid, ids, sent) == IF sent THEN Remember(mid, ids) ELSE ids

\* a tick starts: lines 297-302, up to the await of get_upcoming.  The first
\* tick runs when the bot is ready, each later one TickSeconds after the last.
\* The cog's session is open by then (cog_load ran when the cog was added).
\* int(channel_id) of text that is no integer raises outside the try, the
\* exception leaves the task and tasks.loop runs no further tick.
TickOutcome(chan) ==
    CASE chan \in {"unset", "empty"} -> "idle"
      [] chan = "malformed" -> "crashed"
      [] chan = "unresolvable" -> "idle"
      [] OTHER -> "fetch"

TickStart ==
    /\ spc = "idle"
    /\ ticks < MaxTicks
    /\ ticks' = ticks + 1
    /\ clock' = IF ticks = 0 THEN clock ELSE clock + TickSeconds
    /\ spc' = TickOutcome(envChan)
    /\ UNCHANGED <<announced, envChan, now, todo, posts, upstream>>
    /\ UNCHANGED <<normVars, cmdVars>>

\* get_upcoming raises: swallowed by the except of line 318
TickFetchFail ==
    /\ spc = "fetch"
    /\ spc' = "idle"
    /\ UNCHANGED <<announced, envChan, now, clock, todo, posts, ticks, upstream>>
    /\ UNCHANGED <<normVars, cmdVars>>

\* get_upcoming returns; now = int(time.time())
TickFetchOk ==
    /\ spc = "fetch"
    /\ \E lat \in Latencies : now' = clock + lat
    /\ todo' = 1
    /\ spc' = "loop"
    /\ UNCHANGED <<announced, envChan, clock, posts, ticks, upstream>>
    /\ UNCHANGED <<normVars, cmdVars>>

LogPost(act, mid) ==
    Append(posts, [tick |-> ticks, idx |-> todo, now |-> now, act |-> act, mid |-> mid])

\* the for loop is exhausted
TickLoopEnd ==
    /\ spc = "loop"
    /\ todo > Len(upstream)
    /\ spc' = "idle"
    /\ todo' = 0
    /\ UNCHANGED <<announced, envChan, now, clock, posts, ticks, upstream>>
    /\ UNCHANGED <<normVars, cmdVars>>

\* one iteration of the for loop, lines 306-317, its await of ch.send included
TickLoopStep ==
    /\ spc = "loop"
    /\ todo <= Len(upstream)
    /\ LET nm == safe_normalize(upstream[todo], PyNone)
           mid == Get(nm, "match_id")
       IN IF IsNoneNm(nm) \/ ~Truthy(Get(nm, "time_unix"))
          THEN \* continue
               /\ posts' = LogPost("skip", PyNone)
               /\ todo' = todo + 1
               /\ UNCHANGED <<spc, announced>>
          ELSE IF IntRaises(nm.time_unix)
          THEN \* int(nm['time_unix']) raises: the tick ends in the except
               /\ posts' = LogPost("raise", PyNone)
               /\ spc' = "idle"
               /\ todo' = 0
               /\ UNCHANGED announced
          ELSE IF ~InLeadWindow(IntOf(nm.time_unix) - now)
          THEN /\ posts' = LogPost("skip", PyNone)
               /\ todo' = todo + 1
               /\ UNCHANGED <<spc, announced>>
          ELSE IF AlreadyAnnounced(mid, announced)
          THEN /\ posts' = LogPost("dup", mid)
               /\ todo' = todo + 1
               /\ UNCHANGED <<spc, announced>>
          ELSE IF make_embed_raises(nm, PyBool(FALSE))
          THEN /\ posts' = LogPost("raise", PyNone)
               /\ spc' = "idle"
               /\ todo' = 0
               /\ UNCHANGED announced
          ELSE \/ \* ch.send succeeds
                  /\ posts' = LogPost("sent", mid)
                  /\ announced' = AnnouncedAfterSend(mid, announced, TRUE)
                  /\ todo' = todo + 1
                  /\ UNCHANGED spc
               \/ \* ch.send raises: the tick ends in the except
                  /\ posts' = LogPost("sendfail", mid)
                  /\ spc' = "idle"
                  /\ todo' = 0
                  /\ announced' = AnnouncedAfterSend(mid, announced, FALSE)
    /\ UNCHANGED <<envChan, now, clock, ticks, upstream>>
    /\ UNCHANGED <<normVars, cmdVars>>

SchedNext == TickStart \/ TickFetchFail \/ TickFetchOk \/ TickLoopEnd \/ TickLoopStep

(***************************************************************************)
(* Text: lower(), strip(), substring test, ordering                        *)
(***************************************************************************)
Uppers == <<"A", "B", "C", "D", "E", "F", "G", "H", "I", "J", "K", "L", "M",
            "N", "O", "P", "Q", "R", "S", "T", "U", "V", "W", "X", "Y", "Z">>
Lowers == <<"a", "b", "c", "d", "e", "f", "g", "h", "i", "j", "k", "l", "m",
            "n", "o", "p", "q", "r", "s", "t", "u", "v", "w", "x", "y", "z">>

LowerChar(c) ==
    IF \E i \in 1..Len(Uppers) : Uppers[i] = c
    THEN Lowers[CHOOSE i \in 1..Len(Uppers) : Uppers[i] = c]
    ELSE c

\* s.lower()
Lower(s) == [i \in 1..Len(s) |-> LowerChar(s[i])]

\* needle in s
Contains(s, needle) ==
    \E i \in 0..(Len(s) - Len(needle)) : SubSeq(s, i + 1, i + Len(needle)) = needle

\* s.strip() (of spaces)
RECURSIVE Strip(_)
Strip(s) ==
    IF s = <<>> THEN s
    ELSE IF s[1] = " " THEN Strip(Tail(s))
    ELSE IF s[Len(s)] = " " THEN Strip(SubSeq(s, 1, Len(s) - 1))
    ELSE s

\* the characters of the model's texts in code point order
CharOrder == <<" ", "*", "-", ".", "/">> \o Digits \o <<":", "?">> \o Uppers \o Lowers
CharCode(c) == CHOOSE i \in 1..Len(CharOrder) : CharOrder[i] = c

\* a < b for two strings
RECURSIVE TextLess(_, _)
TextLess(a, b) ==
    IF b = <<>> THEN FALSE
    ELSE IF a = <<>> THEN TRUE
    ELSE IF a[1] = b[1] THEN TextLess(Tail(a), Tail(b))
    ELSE CharCode(a[1]) < CharCode(b[1])

(***************************************************************************)
(* filter_matches and the sort by start time                               *)
(***************************************************************************)
\* (f or "").lower() raises for a truthy value that is no string
FieldRaises(f) == Truthy(f) /\ f.t # "str"
FieldHas(f, needle) == Contains(Lower(Or(f, PyStr(<<>>)).s), needle)

\* any(needle in (f or "").lower() for f in fields), fields in the order ks:
\* "hit" when a field contains the needle before any field raises
RECURSIVE AnyField(_, _, _)
AnyField(m, ks, needle) ==
    IF ks = <<>> THEN "miss"
    ELSE LET f == GetD(m, ks[1], PyStr(<<>>))
         IN IF FieldRaises(f) THEN "raise"
            ELSE IF FieldHas(f, needle) THEN "hit"
            ELSE AnyField(m, Tail(ks), needle)

FilterOrder == <<"event", "team1", "team2", "region">>
SimpleOrder == <<"team1", "team2", "event", "region">>

SelectHits(matches, ks, needle) ==
    SelectSeq(matches, LAMBDA m : AnyField(m, ks, needle) = "hit")
AnyRaises(matches, ks, needle) ==
    \E i \in 1..Len(matches) : AnyField(matches[i], ks, needle) = "raise"

\* filter_matches(matches, needle)
filter_matches_raises(matches, needle) == AnyRaises(matches, FilterOrder, Lower(needle))
filter_matches(matches, needle) == SelectHits(matches, FilterOrder, Lower(needle))

\* the sort key: x.get("time_unix") or 0
SortKey(m) == Or(Get(m, "time_unix"), PyInt(0))

\* a < b on two keys raises TypeError unless both are ints or both strings
KeyNum(k) == k.t \in {"int", "bool"}
KeysComparable(a, b) == (KeyNum(a) /\ KeyNum(b)) \/ (a.t = "str" /\ b.t = "str")
KeyLess(a, b) == IF KeyNum(a) THEN a.n < b.n ELSE TextLess(a.s, b.s)

\* sorting two or more elements compares keys of every type present
SortRaises(ms) ==
    \E i, j \in 1..Len(ms) : i # j /\ ~KeysComparable(SortKey(ms[i]), SortKey(ms[j]))

\* list.sort / sorted: stable, ascending by key
RECURSIVE InsertByKey(_, _)
InsertByKey(sorted, m) ==
    IF sorted = <<>> THEN <<m>>
    ELSE IF KeyLess(SortKey(m), SortKey(sorted[Len(sorted)]))
         THEN Append(InsertByKey(SubSeq(sorted, 1, Len(sorted) - 1), m), sorted[Len(sorted)])
         ELSE Append(sorted, m)

RECURSIVE SortByTime(_)
SortByTime(ms) ==
    IF ms = <<>> THEN <<>>
    ELSE InsertByKey(SortByTime(SubSeq(ms, 1, Len(ms) - 1)), ms[Len(ms)])

\* xs[:] in place of xs[:n]
Take_NoLimit(xs, n) == xs

\* xs[:n]
Take(xs, n) == SubSeq(xs, 1, IF Len(xs) < n THEN Len(xs) ELSE n)

\* [n for m in raw if (n := safe_normalize(m, live_flag=...))]
NormalizeAll(rawList, live_flag) ==
    SelectSeq([i \in 1..Len(rawList) |-> safe_normalize(rawList[i], live_flag)],
              LAMBDA nm : ~IsNoneNm(nm))

(***************************************************************************)
(* What the command handlers compute between the fetch and safe_edit       *)
(***************************************************************************)
MaxShown == 10

Content(text, n) == [text |-> text, n |-> n, mention |-> FALSE]
Mentioned(c) == [c EXCEPT !.mention = TRUE]
Result(content, embeds) == [raises |-> FALSE, content |-> content, embeds |-> embeds]
Raised == [raises |-> TRUE, content |-> Content("", 0), embeds |-> <<>>]

\* [make_embed_from_match(m, live=...) for m in ms]; liveOf(m) is the live argument
RenderRaises(ms, liveOf(_)) ==
    \E i \in 1..Len(ms) : make_embed_raises(ms[i], liveOf(ms[i]))
Render(ms, liveOf(_), t) ==
    [i \in 1..Len(ms) |-> make_embed_from_match(ms[i], liveOf(ms[i]), t)]

NotLive(m) == PyBool(FALSE)
IsLive(m) == PyBool(TRUE)
LiveOfMatch(m) == GetD(m, "live", PyBool(FALSE))

\* count = max(1, min(count, 10))
ClampCount(c) == LET lo == IF c < MaxShown THEN c ELSE MaxShown
                 IN IF lo > 1 THEN lo ELSE 1

\* _send_upcoming, lines 154-179, after get_upcoming returned rawList
send_upcoming_result(rawList, cnt, filter_kw, t) ==
    LET norm0 == NormalizeAll(rawList, PyNone)
        filtering == Truthy(filter_kw)
        norm1 == IF filtering THEN filter_matches(norm0, filter_kw.s) ELSE norm0
        norm2 == Take(SortByTime(norm1), ClampCount(cnt))
    IN IF filtering /\ filter_matches_raises(norm0, filter_kw.s) THEN Raised
       ELSE IF SortRaises(norm1) THEN Raised
       ELSE IF norm2 = <<>>
            THEN Result(Content("No upcoming matches found with that filter.", 0), <<>>)
       ELSE IF RenderRaises(norm2, NotLive) THEN Raised
       ELSE Result(Content("Showing {n} upcoming:", Len(norm2)), Render(norm2, NotLive, t))

\* live_matches, lines 214-223, after get_live returned rawList
live_result(rawList, t) ==
    LET norm == NormalizeAll(rawList, PyBool(TRUE))
        shown == Take(norm, MaxShown)
    IN IF norm = <<>> THEN Result(Content("No live matches right now.", 0), <<>>)
       ELSE IF RenderRaises(shown, IsLive) THEN Raised
       ELSE Result(Content("Live matches ({n} shown):", Len(shown)), Render(shown, IsLive, t))

ListAllQueries == {<<"a", "l", "l">>, <<"*">>}

\* find_matches, lines 241-281, after both fetches returned
find_result(live_raw, up_raw, q, t) ==
    LET live_norm == NormalizeAll(live_raw, PyBool(TRUE))
        up_norm == NormalizeAll(up_raw, PyBool(FALSE))
        all_matches == live_norm \o up_norm
        upcoming_sorted == Take(SortByTime(up_norm), MaxShown)
        hits0 == filter_matches(all_matches, q)
        hits1 == IF hits0 = <<>> THEN SelectHits(all_matches, SimpleOrder, Lower(q)) ELSE hits0
        hits == Take(SortByTime(hits1), MaxShown)
    IN IF Lower(Strip(q)) \in ListAllQueries
       THEN IF SortRaises(up_norm) THEN Raised
            ELSE IF upcoming_sorted = <<>>
                 THEN Result(Content("No upcoming matches found.", 0), <<>>)
            ELSE IF RenderRaises(upcoming_sorted, NotLive) THEN Raised
            ELSE Result(Content("Showing next {n} upcoming:", Len(upcoming_sorted)),
                        Render(upcoming_sorted, NotLive, t))
       ELSE IF filter_matches_raises(all_matches, q) THEN Raised
       ELSE IF hits0 = <<>> /\ AnyRaises(all_matches, SimpleOrder, Lower(q)) THEN Raised
       ELSE IF SortRaises(hits1) THEN Raised
       ELSE IF hits = <<>> THEN Result(Content("No matches found for {query}.", 0), <<>>)
       ELSE IF RenderRaises(hits, LiveOfMatch) THEN Raised
       ELSE Result(Content("Results for {query} ({n} found):", Len(hits)),
                   Render(hits, LiveOfMatch, t))

(***************************************************************************)
(* One command invocation: /next, /upcoming, /live, /find                  *)
(***************************************************************************)
MaxFetched == 2

Commands == {"next", "upcoming", "live", "find"}

UpPool ==
    { SegStrict(PyStr(<<"7">>), PyInt(AlertLeadSeconds)),
      SegFlat(PyStr(<<"5">>), PyInt(TickSeconds)),
      [SegStrict(PyStr(<<"4">>), PyInt(TickSeconds)) EXCEPT !.team2 = PyStr(T_B)],
      SegFlat(PyStr(<<"6">>), PyStr(<<"s", "o", "o", "n">>)),
      NonDictSeg(<<"s", "t", "r">>) }
LivePool ==
    { [SegStrict(PyStr(<<"3">>), Absent) EXCEPT !.score = PyStr(<<"1", "-", "0">>)],
      SegFlat(PyStr(<<"6">>), PyStr(<<"s", "o", "o", "n">>)) }

Queries == {<<"*">>, <<"a">>, <<"z">>}
Filters == {PyNone, PyStr(<<"A">>)}
Counts  == {1, 5}

NoPending == [content |-> Content("", 0), embeds |-> <<>>]
Msg(kind, via, content, embeds) ==
    [kind |-> kind, via |-> via, content |-> content, embeds |-> embeds]
\* a logged call: its outcome, the message it created or targeted, and for an
\* edit or a post the (content, embeds) handed to safe_edit
OpArg(op, res, msg, arg) == [op |-> op, res |-> res, msg |-> msg, arg |-> arg]
Op(op, res, msg) == OpArg(op, res, msg, NoPending)

\* a handler that starts the fetch before it acknowledges
StartPc_FetchFirst(c) == IF c \in {"live", "find"} THEN "fetch_live" ELSE "fetch_up"

\* every handler starts with quick_ack
StartPc(c) == "ack"

CmdInit ==
    /\ cmd \in Commands
    /\ query \in (IF cmd = "find" THEN {PyStr(q) : q \in Queries}
                  ELSE IF cmd = "live" THEN {PyNone} ELSE Filters)
    /\ count \in (IF cmd \in {"next", "upcoming"} THEN Counts ELSE {5})
    /\ pc = StartPc(cmd)
    /\ responded = FALSE
    /\ msgs = <<>>
    /\ ackMsg = 0
    /\ oplog = <<>>
    /\ liveRaw = <<>>
    /\ upRaw = <<>>
    /\ pending = NoPending
    /\ exc = "none"

TimeoutText == "Timed out fetching data from VLR. Try again later."
ErrorText == "Error: {e}"

\* the text the handler acknowledges with: the provisional text, or, in its
\* except clause, the error acknowledgment
AckText(c, e) ==
    IF e # "none"
    THEN IF c = "find" THEN "Error occurred while searching."
         ELSE "Error occurred while fetching upcoming."
    ELSE CASE c = "live" -> "Checking live matches..."
           [] c = "find" -> "Searching for {query}..."
           [] OTHER -> "Searching upcoming..."

\* the first await after the acknowledgment
AfterAck(c) == IF c \in {"live", "find"} THEN "fetch_live" ELSE "fetch_up"

\* the handlers with a try/except around their body: all but live_matches
HandlerCatches(c) == c \in {"next", "upcoming", "find"}

\* where an exception raised in the handler goes: inside the except clause it
\* is passed over; otherwise to the except clause (which starts with
\* quick_ack) or, without one, out of the handler
RaisePc(c, e) ==
    IF e # "none" THEN "done"
    ELSE IF HandlerCatches(c) THEN "ack" ELSE "escaped"
RaiseExc(e, new) == IF e # "none" THEN e ELSE new

\* how interaction.response.send_message / original_response can end: the
\* reply and its lookup succeed; the reply raises NotFound (expired token);
\* the reply raises anything else (InteractionResponded included); the reply
\* is sent and original_response raises
AckWays(resp) == IF resp THEN {"other"} ELSE {"reply", "expired", "other", "origfail"}

\* quick_ack(interaction, content): the messages it creates, the message it
\* returns (0 when channel.send raises and quick_ack with it) and its calls
quick_ack(ms, content, how, sendOk) ==
    LET replied == how \in {"reply", "origfail"}
        ms1 == IF replied THEN Append(ms, Msg("interaction", "ack", content, <<>>)) ELSE ms
        callsTry == IF how = "reply"
                    THEN <<Op("reply", "ok", Len(ms1)), Op("orig", "ok", Len(ms1))>>
                    ELSE IF how = "origfail"
                    THEN <<Op("reply", "ok", Len(ms1)), Op("orig", "fail", Len(ms1))>>
                    ELSE <<Op("reply", how, 0)>>
        fallback == how # "reply"
        ms2 == IF fallback /\ sendOk
               THEN Append(ms1, Msg("channel", "ack", Mentioned(content), <<>>)) ELSE ms1
        callsSend == IF ~fallback THEN <<>>
                     ELSE IF sendOk THEN <<Op("send", "ok", Len(ms2))>>
                     ELSE <<Op("send", "fail", 0)>>
    IN [msgs |-> ms2,
        msg |-> IF fallback /\ ~sendOk THEN 0 ELSE Len(ms2),
        replied |-> replied,
        calls |-> callsTry \o callsSend]

CmdAck ==
    /\ pc = "ack"
    /\ \E how \in AckWays(responded), sendOk \in BOOLEAN :
         /\ how = "reply" => sendOk
         /\ LET r == quick_ack(msgs, Content(AckText(cmd, exc), 0), how, sendOk)
            IN /\ msgs' = r.msgs
               /\ responded' = (responded \/ r.replied)
               /\ oplog' = oplog \o r.calls
               /\ IF r.msg = 0
                  THEN /\ pc' = RaisePc(cmd, exc)
                       /\ exc' = RaiseExc(exc, "ack")
                       /\ UNCHANGED <<ackMsg, pending>>
                  ELSE /\ ackMsg' = r.msg
                       /\ UNCHANGED exc
                       /\ IF exc = "none"
                          THEN pc' = AfterAck(cmd) /\ UNCHANGED pending
                          ELSE /\ pc' = "edit"
                               /\ pending' = [content |-> Content(ErrorText, 0),
                                              embeds |-> <<>>]
    /\ UNCHANGED <<cmd, query, count, liveRaw, upRaw>>
    /\ UNCHANGED <<normVars, schedVars>>

\* the handler goes on with what it computed: to safe_edit, or to the raise
Deliver(res) ==
    IF res.raises
    THEN /\ pc' = RaisePc(cmd, exc)
         /\ exc' = RaiseExc(exc, "compute")
         /\ UNCHANGED pending
    ELSE /\ pc' = "edit"
         /\ pending' = [content |-> res.content, embeds |-> res.embeds]
         /\ UNCHANGED exc

FetchRaises(op) ==
    /\ oplog' = Append(oplog, Op(op, "fail", 0))
    /\ pc' = RaisePc(cmd, exc)
    /\ exc' = RaiseExc(exc, "fetch")
    /\ UNCHANGED <<pending, liveRaw, upRaw>>

\* a missing except asyncio.TimeoutError: the timeout is raised like any error
FetchTimesOut_Unhandled(op) ==
    /\ cmd = "find"
    /\ oplog' = Append(oplog, Op(op, "timeout", 0))
    /\ pc' = RaisePc(cmd, exc)
    /\ exc' = RaiseExc(exc, "fetch")
    /\ UNCHANGED <<pending, liveRaw, upRaw>>

\* asyncio.wait_for(fetch_data(), timeout=12) raises TimeoutError: lines 237-239
FetchTimesOut(op) ==
    /\ cmd = "find"
    /\ oplog' = Append(oplog, Op(op, "timeout", 0))
    /\ pc' = "edit"
    /\ pending' = [content |-> Content(TimeoutText, 0), embeds |-> <<>>]
    /\ UNCHANGED <<exc, liveRaw, upRaw>>

\* await get_live(self.session)
CmdFetchLive ==
    /\ pc = "fetch_live"
    /\ \/ \E l \in SeqsUpTo(LivePool, MaxFetched) :
            /\ liveRaw' = l
            /\ oplog' = Append(oplog, Op("fetch_live", "ok", 0))
            /\ UNCHANGED upRaw
            /\ IF cmd = "live" THEN Deliver(live_result(l, clock))
               ELSE pc' = "fetch_up" /\ UNCHANGED <<pending, exc>>
       \/ FetchRaises("fetch_live")
       \/ FetchTimesOut("fetch_live")
    /\ UNCHANGED <<cmd, query, count, responded, msgs, ackMsg>>
    /\ UNCHANGED <<normVars, schedVars>>

\* await get_upcoming(self.session)
CmdFetchUp ==
    /\ pc = "fetch_up"
    /\ \/ \E u \in SeqsUpTo(UpPool, MaxFetched) :
            /\ upRaw' = u
            /\ oplog' = Append(oplog, Op("fetch_up", "ok", 0))
            /\ UNCHANGED liveRaw
            /\ IF cmd = "find" THEN Deliver(find_result(liveRaw, u, query.s, clock))
               ELSE Deliver(send_upcoming_result(u, count, query, clock))
       \/ FetchRaises("fetch_up")
       \/ FetchTimesOut("fetch_up")
    /\ UNCHANGED <<cmd, query, count, responded, msgs, ackMsg>>
    /\ UNCHANGED <<normVars, schedVars>>

\* safe_edit, lines 124-127: await msg.edit(content=..., embeds=...)
edit_message(m, content, embeds) == [m EXCEPT !.content = content, !.embeds = embeds]

\* a fallback that sends the content alone
FallbackSend_DropsEmbeds(content, embeds) == IF content.text # "" THEN "content" ELSE ""

\* safe_edit, lines 130-135: what the except branch sends ("" for nothing)
FallbackSend(content, embeds) ==
    IF content.text # "" /\ embeds # <<>> THEN "both"
    ELSE IF content.text # "" THEN "content"
    ELSE IF embeds # <<>> THEN "embeds"
    ELSE ""

CmdEdit ==
    /\ pc = "edit"
    /\ \/ /\ msgs' = [msgs EXCEPT ![ackMsg] = edit_message(@, pending.content, pending.embeds)]
          /\ oplog' = Append(oplog, OpArg("edit", "ok", ackMsg, pending))
          /\ pc' = "done"
       \/ /\ oplog' = Append(oplog, OpArg("edit", "fail", ackMsg, pending))
          /\ pc' = IF FallbackSend(pending.content, pending.embeds) = "" THEN "done" ELSE "post"
          /\ UNCHANGED msgs
    /\ UNCHANGED <<cmd, query, count, responded, ackMsg, liveRaw, upRaw, pending, exc>>
    /\ UNCHANGED <<normVars, schedVars>>

\* the message msg.channel.send creates in safe_edit's except branch
fresh_post(content, embeds) ==
    LET what == FallbackSend(content, embeds)
    IN Msg("channel", "post",
           IF what \in {"both", "content"} THEN content ELSE Content("", 0),
           IF what \in {"both", "embeds"} THEN embeds ELSE <<>>)

CmdPost ==
    /\ pc = "post"
    /\ \/ /\ msgs' = Append(msgs, fresh_post(pending.content, pending.embeds))
          /\ oplog' = Append(oplog, OpArg("post", "ok", Len(msgs) + 1, pending))
          /\ pc' = "done"
          /\ UNCHANGED exc
       \/ /\ oplog' = Append(oplog, OpArg("post", "fail", 0, pending))
          /\ pc' = RaisePc(cmd, exc)
          /\ exc' = RaiseExc(exc, "post")
          /\ UNCHANGED msgs
    /\ UNCHANGED <<cmd, query, count, responded, ackMsg, liveRaw, upRaw, pending>>
    /\ UNCHANGED <<normVars, schedVars>>

CmdNext == CmdAck \/ CmdFetchLive \/ CmdFetchUp \/ CmdEdit \/ CmdPost

(***************************************************************************)
(* The scheduler and a command handler running in the same event loop:     *)
(* each await of either is a point where the other may run                 *)
(***************************************************************************)
\* the upstream holds two matches with ids, a second apart around the far
\* end of the lead window, and the alert channel is configured
BotSchedInit ==
    /\ SchedInit
    /\ envChan = "channel"
    /\ upstream = <<SegStrict(PyStr(<<"7">>), PyInt(AlertLeadSeconds)),
                    SegStrict(PyStr(<<"8">>), PyInt(AlertLeadSeconds + 1))>>

\* /find "*" is invoked
BotCmdInit ==
    /\ CmdInit
    /\ cmd = "find"
    /\ query = PyStr(<<"*">>)

\* get_live of the handler, no match being live
BotFetchLive == CmdFetchLive /\ liveRaw' = <<>>

\* get_upcoming of the handler, returning one segment at most
BotFetchUp == CmdFetchUp /\ Len(upRaw') <= 1

BotNext ==
    \/ TickStart \/ TickFetchFail \/ TickFetchOk \/ TickLoopEnd \/ TickLoopStep
    \/ CmdAck \/ BotFetchLive \/ BotFetchUp \/ CmdEdit \/ CmdPost

(***************************************************************************)
(* The normaliser on its own                                               *)
(***************************************************************************)
TeamVals == {Absent, PyNone, PyStr(<<>>), PyStr(T_A), PyDict(T_A, <<>>),
             PyDict(<<>>, <<>>), EmptyDict}
NormInputs ==
    { [EmptySeg EXCEPT !.team1 = t1, !.team_1 = f1, !.team2 = t2, !.team_2 = f2,
                       !.time_unix = tu, !.match_id = id, !.score1 = sc[1],
                       !.score2 = sc[2], !.score = s, !.unix_timestamp = ts] :
        t1 \in TeamVals, f1 \in {Absent, PyStr(T_A)},
        t2 \in {Absent, PyStr(T_B), PyDict(T_B, <<>>)}, f2 \in {Absent, PyStr(T_B)},
        tu \in {Absent, PyInt(TickSeconds), PyStr(<<"6", "0">>), PyStr(<<"s", "o", "o", "n">>)},
        id \in {Absent, PyStr(<<"7">>), PyInt(7)},
        sc \in {<<Absent, Absent>>, <<PyInt(2), PyInt(1)>>, <<PyStr(<<"2">>), Absent>>},
        s \in {Absent, PyStr(<<"1", "-", "0">>)},
        ts \in {Absent, PyStr(DateA), PyStr(<<"s", "o", "o", "n">>)} }
    \cup {NonDictSeg(k) : k \in {<<"s", "t", "r">>, <<"n", "o", "n", "e">>,
                                 <<"i", "n", "t">>, <<"l", "i", "s", "t">>}}

NormInit ==
    /\ raw \in NormInputs
    /\ liveHint \in {PyNone, PyBool(TRUE), PyBool(FALSE)}
    /\ nmOut = [done |-> FALSE, raised |-> FALSE, nm |-> NoneNm]
    /\ nmAgain = [done |-> FALSE, raised |-> FALSE, nm |-> NoneNm]

\* what a call safe_normalize(m, live_flag=live_flag) leaves its caller with
Normalized(m, live_flag) ==
    IF safe_normalize_raises(m)
    THEN [done |-> TRUE, raised |-> TRUE, nm |-> NoneNm]
    ELSE [done |-> TRUE, raised |-> FALSE, nm |-> safe_normalize(m, live_flag)]

\* the harness calls safe_normalize(raw, live_flag=liveHint)
Normalize ==
    /\ ~nmOut.done
    /\ nmOut' = Normalized(raw, liveHint)
    /\ UNCHANGED <<raw, liveHint, nmAgain, fnIn, fnOut>>
    /\ UNCHANGED <<schedVars, cmdVars>>

\* the harness calls safe_normalize on the record the first call returned
NormalizeAgain ==
    /\ nmOut.done
    /\ ~nmOut.raised
    /\ ~IsNoneNm(nmOut.nm)
    /\ ~nmAgain.done
    /\ nmAgain' = Normalized(AsSeg(nmOut.nm), liveHint)
    /\ UNCHANGED <<raw, liveHint, nmOut, fnIn, fnOut>>
    /\ UNCHANGED <<schedVars, cmdVars>>

NormNext == Normalize \/ NormalizeAgain

(***************************************************************************)
(* filter_matches on its own                                               *)
(***************************************************************************)
MaxFilterLen == 3

\* raw segments whose normalised records the filter is given: nested teams
\* "A" and "B"; nested teams "Ab" and "C" in region "EU"; no teams and event
\* "ab Cup"; flat teams "A" and "B"; team1 nested and team2 flat
FilterPool ==
    { SegStrict(PyStr(<<"1">>), PyInt(TickSeconds)),
      [EmptySeg EXCEPT !.team1 = PyDict(<<"A", "b">>, <<>>),
                       !.team2 = PyDict(<<"C">>, <<>>),
                       !.region = PyStr(<<"E", "U">>)],
      [EmptySeg EXCEPT !.event = PyStr(<<"a", "b", " ", "C", "u", "p">>)],
      SegFlat(PyStr(<<"2">>), PyInt(TickSeconds)),
      [EmptySeg EXCEPT !.team1 = PyDict(T_A, <<>>), !.team2 = PyStr(T_B)] }

FilterNeedles == {<<>>, <<"a">>, <<"b">>, <<"A", "B">>, <<"e", "u">>, <<"z">>}

FilterInit ==
    /\ \E rl \in SeqsUpTo(FilterPool, MaxFilterLen), needle \in FilterNeedles :
           fnIn = [fn |-> "filter_matches",
                   matches |-> NormalizeAll(rl, PyNone), needle |-> needle]
    /\ fnOut = [done |-> FALSE]

\* the harness calls filter_matches(matches, needle)
FilterApply ==
    /\ fnIn.fn = "filter_matches"
    /\ ~fnOut.done
    /\ fnOut' = IF filter_matches_raises(fnIn.matches, fnIn.needle)
                THEN [done |-> TRUE, raised |-> TRUE, out |-> <<>>]
                ELSE [done |-> TRUE, raised |-> FALSE,
                      out |-> filter_matches(fnIn.matches, fnIn.needle)]
    /\ UNCHANGED <<raw, liveHint, nmOut, nmAgain, fnIn>>
    /\ UNCHANGED <<schedVars, cmdVars>>

FilterNext == FilterApply

(***************************************************************************)
(* The list /find builds, on its own                                       *)
(***************************************************************************)
MaxUpcoming == 12

\* the i-th segment of the upcoming response: start times in no order, one
\* segment without a start time, one that is no dict, every fifth with flat
\* team names
UpcomingSeg(i) ==
    LET id == PyStr(NatToText(i))
        tu == IF i = 3 THEN Absent ELSE PyInt(((i * 7) % 13) * 60)
    IN IF i = 8 THEN NonDictSeg(<<"s", "t", "r">>)
       ELSE IF i % 5 = 0
            THEN [SegFlat(id, tu) EXCEPT !.url = PyStr(VlrPrefix \o NatToText(i))]
       ELSE SegStrict(id, tu)
UpcomingBase == [i \in 1..MaxUpcoming |-> UpcomingSeg(i)]
UpcomingLists ==
    {<<>>} \cup {SubSeq(UpcomingBase, a, b) : a, b \in 1..MaxUpcoming}

\* live segments, starting before every upcoming one
LiveSeg(i) ==
    [SegStrict(PyStr(<<"9">> \o NatToText(i)), PyInt(i)) EXCEPT
        !.score = PyStr(<<"1", "-", "0">>)]
LiveLists == {<<>>, <<LiveSeg(1)>>, <<LiveSeg(1), LiveSeg(2)>>}

FindQueries == {<<"*">>, <<"a", "l", "l">>, <<" ", "A", "L", "L", " ">>, <<"a">>}

FindInit ==
    /\ \E l \in LiveLists, u \in UpcomingLists, q \in FindQueries :
           fnIn = [fn |-> "find_matches", live |-> l, up |-> u, query |-> q]
    /\ fnOut = [done |-> FALSE]

\* lines 241-281 of find_matches applied to the two fetched lists
FindApply ==
    /\ fnIn.fn = "find_matches"
    /\ ~fnOut.done
    /\ fnOut' = [done |-> TRUE,
                 res |-> find_result(fnIn.live, fnIn.up, fnIn.query, 0)]
    /\ UNCHANGED <<raw, liveHint, nmOut, nmAgain, fnIn>>
    /\ UNCHANGED <<schedVars, cmdVars>>

FindNext == FindApply

(***************************************************************************)
(* fmt_delta on its own                                                    *)
(***************************************************************************)
MaxSeconds == 7300

\* every value within MaxSeconds of zero, and values around 10 and 100 hours
DeltaInputs ==
    (-MaxSeconds..MaxSeconds)
    \cup {3600 * h + d : h \in {10, 100}, d \in {-1, 0, 1, 59, 60, 3599}}

DeltaInit ==
    /\ \E v \in DeltaInputs : fnIn = [fn |-> "fmt_delta", seconds |-> v]
    /\ fnOut = [done |-> FALSE]

\* the harness calls fmt_delta(seconds)
DeltaApply ==
    /\ fnIn.fn = "fmt_delta"
    /\ ~fnOut.done
    /\ fnOut' = [done |-> TRUE, out |-> fmt_delta(fnIn.seconds)]
    /\ UNCHANGED <<raw, liveHint, nmOut, nmAgain, fnIn>>
    /\ UNCHANGED <<schedVars, cmdVars>>

DeltaNext == DeltaApply

(***************************************************************************)
(* Specifications                                                          *)
(***************************************************************************)
NormIdle ==
    /\ raw = EmptySeg
    /\ liveHint = PyNone
    /\ nmOut = [done |-> TRUE, raised |-> FALSE, nm |-> NoneNm]
    /\ nmAgain = [done |-> TRUE, raised |-> FALSE, nm |-> NoneNm]
FnIdle ==
    /\ fnIn = [fn |-> "none"]
    /\ fnOut = [done |-> TRUE]
SchedIdle ==
    /\ announced = {}
    /\ spc = "idle"
    /\ envChan = "unset"
    /\ now = 0
    /\ clock = 0
    /\ todo = 0
    /\ posts = <<>>
    /\ ticks = MaxTicks
    /\ upstream = <<>>
CmdIdle ==
    /\ cmd = "live"
    /\ query = PyNone
    /\ count = 5
    /\ pc = "done"
    /\ responded = FALSE
    /\ msgs = <<>>
    /\ ackMsg = 0
    /\ oplog = <<>>
    /\ liveRaw = <<>>
    /\ upRaw = <<>>
    /\ pending = NoPending
    /\ exc = "none"

\* the normaliser applied to every input of NormInputs
InitNorm == NormInit /\ FnIdle /\ SchedIdle /\ CmdIdle
SpecNorm == InitNorm /\ [][NormNext]_vars
\* the alert scheduler
InitSched == NormIdle /\ FnIdle /\ SchedInit /\ CmdIdle
SpecSched == InitSched /\ [][SchedNext]_vars
\* one command invocation
InitCmd == NormIdle /\ FnIdle /\ SchedIdle /\ CmdInit
SpecCmd == InitCmd /\ [][CmdNext]_vars
\* the scheduler interleaved with a command handler
InitBot == NormIdle /\ FnIdle /\ BotSchedInit /\ BotCmdInit
SpecBot == InitBot /\ [][BotNext]_vars
\* filter_matches applied to lists of normalised records
InitFilter == NormIdle /\ FilterInit /\ SchedIdle /\ CmdIdle
SpecFilter == InitFilter /\ [][FilterNext]_vars
\* the list of /find built from fetched lists longer than it may show
InitFind == NormIdle /\ FindInit /\ SchedIdle /\ CmdIdle
SpecFind == InitFind /\ [][FindNext]_vars
\* fmt_delta applied to every value of DeltaInputs
InitDelta == NormIdle /\ DeltaInit /\ SchedIdle /\ CmdIdle
SpecDelta == InitDelta /\ [][DeltaNext]_vars

(***************************************************************************)
(* Properties of the alert scheduler                                       *)
(***************************************************************************)
\* the start time the normaliser gives a raw segment, when it is known
\* (non-null, non-zero) and an integer
KnownStart(m) ==
    LET nm == safe_normalize(m, PyNone)
    IN /\ ~IsNoneNm(nm)
       /\ Truthy(Get(nm, "time_unix"))
       /\ ~IntRaises(Get(nm, "time_unix"))
StartOf(m) == IntOf(Get(safe_normalize(m, PyNone), "time_unix"))
SecondsUntilStart(e) == StartOf(upstream[e.idx]) - e.now
Announcing == {"sent", "sendfail"}

\* C3: a match whose upstream record carries the same non-empty match id on
\* two ticks, inside the lead window on both, is announced once in total: no
\* two ticks both post an announcement for the same upstream id.
C3_OneAnnouncementPerId ==
    \A i, j \in DOMAIN posts :
        ( /\ posts[i].act = "sent" /\ posts[j].act = "sent"
          /\ posts[i].tick # posts[j].tick
          /\ Truthy(RawId(upstream[posts[i].idx])) )
        => RawId(upstream[posts[i].idx]) # RawId(upstream[posts[j].idx])

\* C4: a tick announces a match only if its start time is known and
\* 0 <= timeUnix - now <= leadWindowSeconds; every match inside the window
\* (the one at exactly leadWindowSeconds included) is announced unless its id
\* was announced before, and one outside the window (at leadWindowSeconds + 1,
\* below 0) or with an unknown start time is passed over.
C4_LeadWindow ==
    \A i \in DOMAIN posts :
        LET e == posts[i]
            m == upstream[e.idx]
            inWindow == /\ KnownStart(m)
                        /\ 0 <= SecondsUntilStart(e)
                        /\ SecondsUntilStart(e) <= ALERT_LEAD_MINUTES * 60
        IN /\ e.act \in Announcing => inWindow
           /\ e.act = "skip" => ~inWindow
           /\ e.act = "dup" =>
                /\ inWindow
                /\ \E j \in 1..(i - 1) : posts[j].act = "sent" /\ posts[j].mid = e.mid

\* a tick announced a match at exactly the lead window and passed over one a
\* second further away
C4_Witness ==
    /\ \E i \in DOMAIN posts :
         /\ posts[i].act = "sent"
         /\ SecondsUntilStart(posts[i]) = ALERT_LEAD_MINUTES * 60
    /\ \E i \in DOMAIN posts :
         /\ posts[i].act = "skip"
         /\ KnownStart(upstream[posts[i].idx])
         /\ SecondsUntilStart(posts[i]) = ALERT_LEAD_MINUTES * 60 + 1

\* C8: no scheduler tick lets an exception escape, whatever the value of
\* ALERT_CHANNEL_ID: the scheduler task is never ended by an exception.
C8_NoTickEscapes == spc # "crashed"

\* the loop of the tick reached the record inside the lead window
InWindowAt(e) ==
    /\ KnownStart(upstream[e.idx])
    /\ 0 <= SecondsUntilStart(e)
    /\ SecondsUntilStart(e) <= ALERT_LEAD_MINUTES * 60

\* C17: a post failure during a tick is swallowed and retried by the next
\* tick: the id of a match whose post failed is not added to the announced
\* ids (an id enters the set only after its announcement was posted), and the
\* next tick that reaches the match inside the lead window posts it again.
C17_FailedPostIsRetried ==
    /\ \A x \in announced :
          \E i \in DOMAIN posts : posts[i].act = "sent" /\ posts[i].mid = x
    /\ \A i \in DOMAIN posts :
          posts[i].act = "sendfail" =>
            /\ spc # "crashed"
            /\ (\A k \in 1..(i - 1) : ~(posts[k].act = "sent" /\ posts[k].mid = posts[i].mid))
                  => posts[i].mid \notin announced
                     \/ \E k \in (i + 1)..Len(posts) :
                           posts[k].act = "sent" /\ posts[k].mid = posts[i].mid
            /\ \A j \in (i + 1)..Len(posts) :
                  ( /\ posts[j].idx = posts[i].idx
                    /\ InWindowAt(posts[j])
                    /\ \A k \in (i + 1)..(j - 1) :
                          ~(posts[k].act = "sent" /\ posts[k].mid = posts[i].mid) )
                  => posts[j].act \in Announcing

\* the post of a match with an id failed on one tick and succeeded on the
\* next, and only then was the id remembered
C17_Witness ==
    \E i, j \in DOMAIN posts :
        /\ posts[i].act = "sendfail"
        /\ Truthy(posts[i].mid)
        /\ posts[j].act = "sent"
        /\ posts[j].idx = posts[i].idx
        /\ posts[j].tick = posts[i].tick + 1
        /\ posts[j].mid = posts[i].mid
        /\ announced = {posts[i].mid}

\* the normalised record of a raw segment has no usable id
NoStableId(m) ==
    /\ IsDictSeg(m)
    /\ ~Truthy(Get(safe_normalize(m, PyNone), "match_id"))
\* tick t fetched, ran its loop to the end and nothing raised in it
RanClean(t) ==
    /\ t < ticks \/ spc = "idle"
    /\ \E i \in DOMAIN posts : posts[i].tick = t
    /\ \A i \in DOMAIN posts :
          posts[i].tick = t => posts[i].act \notin {"sendfail", "raise"}

\* C18: a match without a stable id (empty or absent match_id) is announced
\* again on every tick during which it is inside the lead window, and
\* announcing it never changes the announced ids.
C18_NoIdAnnouncedEveryTick ==
    /\ \A x \in announced : Truthy(x)
    /\ \A i \in DOMAIN posts :
          (NoStableId(upstream[posts[i].idx]) /\ InWindowAt(posts[i]))
              => /\ posts[i].act \in Announcing
                 /\ ~Truthy(posts[i].mid)
    /\ \A t \in 1..ticks : \A idx \in DOMAIN upstream :
          RanClean(t) => \E i \in DOMAIN posts : posts[i].tick = t /\ posts[i].idx = idx

\* a match without id was announced on two ticks in a row and no id was
\* remembered
C18_Witness ==
    /\ announced = {}
    /\ \E i, j \in DOMAIN posts :
          /\ NoStableId(upstream[posts[i].idx])
          /\ posts[j].idx = posts[i].idx
          /\ posts[j].tick = posts[i].tick + 1
          /\ posts[i].act = "sent"
          /\ posts[j].act = "sent"
          /\ RanClean(posts[i].tick)
          /\ RanClean(posts[j].tick)

(***************************************************************************)
(* Properties of the normaliser                                            *)
(***************************************************************************)
\* neither spelling of the team's key is in the raw record
TeamMissing(m, k, flat) == m[k].t = "absent" /\ m[flat].t = "absent"

\* C10: for every record-shaped input in which team1 and/or team2 is missing,
\* normalisation returns a record whose name is "?" for each missing side.
C10_MissingTeamIsQuestionMark ==
    (nmOut.done /\ IsDictSeg(raw)) =>
        /\ ~IsNoneNm(nmOut.nm)
        /\ TeamMissing(raw, "team1", "team_1") => nmOut.nm.team1 = PyStr(<<"?">>)
        /\ TeamMissing(raw, "team2", "team_2") => nmOut.nm.team2 = PyStr(<<"?">>)

\* the attributes of a normalised record
SameRecord(a, b) == \A k \in NmKeys \cup {"t"} : a[k] = b[k]

\* C11: normalisation is idempotent on canonical records: for every record r
\* produced by normalisation, normalising r again yields a record equal to r
\* (same attributes with the same values, match_id and time_unix included).
C11_NormalizeIdempotent ==
    nmAgain.done => (~nmAgain.raised /\ SameRecord(nmAgain.nm, nmOut.nm))

\* C16: every record that normalisation returns for a record-shaped input
\* has the complete canonical shape whichever decode produced it: team1,
\* team2, event, region, url, match_id and time_unix are all present, and
\* match_id equals the upstream identifier whenever the raw record carries one
\* (the empty string only when it carries none).
C16_CompleteShape ==
    (nmOut.done /\ IsDictSeg(raw)) =>
        /\ ~nmOut.raised
        /\ ~IsNoneNm(nmOut.nm)
        /\ \A k \in {"team1", "team2", "event", "region", "url", "match_id", "time_unix"} :
              nmOut.nm[k] # Absent
        /\ nmOut.nm.match_id = RawId(raw)

\* C20: for every record-shaped raw input that carries explicit score1 and
\* score2, the normalised score is the text "{score1}-{score2}", on the strict
\* decode as well as on the permissive one; only when those fields are absent
\* is an existing score (or the list of map results) passed through unchanged.
C20_ScoreSynthesis ==
    (nmOut.done /\ IsDictSeg(raw)) =>
        LET s1 == Get(raw, "score1")
            s2 == Get(raw, "score2")
        IN /\ ~nmOut.raised
           /\ (s1.t # "none" /\ s2.t # "none") =>
                nmOut.nm.score = PyStr(Fmt(s1) \o <<"-">> \o Fmt(s2))
           /\ (s1.t = "none" /\ s2.t = "none") =>
                nmOut.nm.score = Or(Get(raw, "score"), GetD(raw, "maps", PyList(0)))

\* C12: safe_normalize never raises: an input that is not record-shaped
\* (string, null, number, list) yields None and is left out of the lists built
\* downstream, and every record-shaped input, however malformed its fields,
\* yields a normalised record, the strict one or the permissive one.
C12_SafeNormalizeNeverRaises ==
    nmOut.done =>
        /\ ~nmOut.raised
        /\ ~IsDictSeg(raw) =>
              /\ IsNoneNm(nmOut.nm)
              /\ NormalizeAll(<<raw>>, liveHint) = <<>>
        /\ IsDictSeg(raw) =>
              /\ ~IsNoneNm(nmOut.nm)
              /\ nmOut.nm.t.t = "dict"
              /\ NormalizeAll(<<raw>>, liveHint) = <<nmOut.nm>>
              /\ nmOut.nm = IF normalize_match_raises(raw)
                             THEN WithLive(permissive_decode(raw), liveHint)
                             ELSE WithLive(normalize_match(raw), liveHint)

\* a record whose team is flat text and whose only time is text no date
\* format accepts went through both decodes and came back as a record
C12_Witness ==
    /\ nmOut.done
    /\ IsDictSeg(raw)
    /\ normalize_match_raises(raw)
    /\ ~Truthy(Get(raw, "time_unix"))
    /\ strptime_raises(Get(raw, "unix_timestamp"))
    /\ Get(raw, "unix_timestamp").t = "str"
    /\ ~nmOut.raised
    /\ ~IsNoneNm(nmOut.nm)

(***************************************************************************)
(* Properties of a command invocation                                      *)
(***************************************************************************)
Ended == pc \in {"done", "escaped"}
\* every channel.send of the invocation succeeded
NoSendFailure == \A i \in DOMAIN oplog : oplog[i].op \in {"send", "post"} => oplog[i].res = "ok"
\* quick_ack returned a message at call i
AckDone(i) == oplog[i].res = "ok" /\ oplog[i].op \in {"orig", "send"}
AckMsgs == {i \in DOMAIN msgs : msgs[i].via = "ack"}
Provisional == {"Searching upcoming...", "Checking live matches...", "Searching for {query}..."}
IsOp(i, op, res) == oplog[i].op = op /\ oplog[i].res = res

\* C1: whatever the outcome of the acknowledgment, the fetch and the edit,
\* an invocation ends with exactly one acknowledgment message, which either
\* was edited in place with the final content or, the edit having failed, is
\* followed by one fresh post of the final content.
C1_ExactlyOneMessage ==
    (Ended /\ NoSendFailure) =>
        /\ Cardinality(AckMsgs) = 1
        /\ \/ /\ Len(msgs) = 1
              /\ \E i \in DOMAIN oplog : IsOp(i, "edit", "ok")
              /\ msgs[1].content = pending.content
           \/ /\ Len(msgs) = 2
              /\ \E i \in DOMAIN oplog : IsOp(i, "edit", "fail")
              /\ msgs[2] = Msg("channel", "post", pending.content, pending.embeds)

\* C2: a failure raised after the acknowledgment never escapes the handler
\* and never leaves the user with only the provisional acknowledgment text.
C2_FailureAfterAckIsSurfaced ==
    (ackMsg # 0 /\ NoSendFailure) =>
        /\ pc # "escaped"
        /\ pc = "done" => \E i \in DOMAIN msgs : msgs[i].content.text \notin Provisional

\* the first acknowledgment attempt failed and quick_ack posted to the channel
FirstAckFellBack ==
    /\ Len(oplog) >= 2
    /\ oplog[1].op = "reply" /\ oplog[1].res \in {"expired", "other"}
    /\ IsOp(2, "send", "ok")

\* C5: when the first acknowledgment attempt fails, a plain channel message
\* with the user's mention is posted, and result delivery edits that message:
\* every edit of the invocation targets it, none an interaction message.
C5_FallbackMessageIsEdited ==
    FirstAckFellBack =>
        /\ msgs[1].kind = "channel"
        /\ \A i \in DOMAIN oplog :
             oplog[i].op = "edit" =>
                /\ oplog[i].msg = oplog[2].msg
                /\ msgs[oplog[i].msg].kind # "interaction"

\* C6: within one invocation the acknowledgment completes before the upstream
\* fetch is started and before any result is delivered by edit or fresh post,
\* and an edit targets a message the acknowledgment created.
C6_AckPrecedesDelivery ==
    \A i \in DOMAIN oplog :
        /\ oplog[i].op \in {"fetch_live", "fetch_up", "edit", "post"}
             => \E j \in 1..(i - 1) : AckDone(j)
        /\ oplog[i].op = "edit"
             => oplog[i].msg \in AckMsgs /\ \E j \in 1..(i - 1) : AckDone(j) /\ oplog[j].msg = oplog[i].msg

\* an acknowledged invocation fetched and delivered its result by a fresh post
C6_Witness ==
    /\ pc = "done"
    /\ \E i \in DOMAIN oplog : IsOp(i, "fetch_up", "ok")
    /\ \E i \in DOMAIN oplog : IsOp(i, "post", "ok")

\* safe_edit has returned or raised after the call logged at i
SafeEditOver(i) == i < Len(oplog) \/ pc # "post"

\* C7 as claimed: whenever the edit fails exactly one new message with the
\* same content and embeds is posted, and none when the edit succeeds.
C7_EditFailurePostsOnce ==
    \A i \in DOMAIN oplog :
        /\ (IsOp(i, "edit", "fail") /\ SafeEditOver(i)) =>
              /\ i < Len(oplog)
              /\ IsOp(i + 1, "post", "ok")
              /\ msgs[oplog[i + 1].msg] =
                    Msg("channel", "post", oplog[i].arg.content, oplog[i].arg.embeds)
        /\ (IsOp(i, "edit", "ok") /\ i < Len(oplog)) => oplog[i + 1].op # "post"

\* C7 amended: whenever the edit fails safe_edit makes exactly one
\* channel.send with the same content (and embeds when there are any), which
\* posts exactly one new message when it succeeds; when the edit succeeds no
\* send is made; a post is only ever made after a failed edit.
C7_EditFailureSendsOnce ==
    /\ \A i \in DOMAIN oplog :
        /\ (IsOp(i, "edit", "fail") /\ SafeEditOver(i)) =>
              /\ i < Len(oplog)
              /\ oplog[i + 1].op = "post"
              /\ oplog[i + 1].arg = oplog[i].arg
              /\ (i + 2 <= Len(oplog)) => oplog[i + 2].op # "post"
              /\ oplog[i + 1].res = "ok" =>
                    msgs[oplog[i + 1].msg] =
                        Msg("channel", "post", oplog[i].arg.content, oplog[i].arg.embeds)
        /\ (IsOp(i, "edit", "ok") /\ i < Len(oplog)) => oplog[i + 1].op # "post"
        /\ oplog[i].op = "post" => (i > 1 /\ IsOp(i - 1, "edit", "fail"))
    /\ Cardinality({i \in DOMAIN msgs : msgs[i].via = "post"})
         = Cardinality({i \in DOMAIN oplog : IsOp(i, "post", "ok")})

\* a failed edit was followed by a fresh post carrying embeds
C7_Witness ==
    \E i \in DOMAIN oplog :
        /\ IsOp(i, "edit", "fail")
        /\ i < Len(oplog) /\ IsOp(i + 1, "post", "ok")
        /\ oplog[i].arg.embeds # <<>>

TimedOutAt(i) == oplog[i].res = "timeout"
TimedOut == \E i \in DOMAIN oplog : TimedOutAt(i)
TimeoutMsg == Content(TimeoutText, 0)

\* C9 as claimed: once the /find fetch timed out, the invocation fetches no
\* more, delivers the timeout message by edit or post and nothing else.
C9_TimeoutDeliversOnlyTimeout ==
    \A i \in DOMAIN oplog : TimedOutAt(i) =>
        /\ \A j \in (i + 1)..Len(oplog) :
              /\ oplog[j].op \in {"edit", "post"}
              /\ oplog[j].arg.content = TimeoutMsg
        /\ pc # "escaped"
        /\ pc = "done" => \E k \in DOMAIN msgs : msgs[k].content = TimeoutMsg

\* C9 amended: once the /find fetch timed out, the invocation fetches no more
\* and searches nothing, and its next step is to deliver the timeout message
\* by edit or, the edit failing, by fresh post; when either succeeds the
\* invocation ends there with that message delivered.  Only when both fail
\* does the handler's except clause go on to deliver the generic error.
C9_TimeoutDeliveredFirst ==
    \A i \in DOMAIN oplog : TimedOutAt(i) =>
        /\ \A j \in (i + 1)..Len(oplog) : oplog[j].op \notin {"fetch_live", "fetch_up"}
        /\ \A j \in (i + 1)..Len(oplog) :
              oplog[j].op \in {"edit", "post"} => oplog[j].arg.content.text \in {TimeoutText, ErrorText}
        /\ pending.content.text \in {TimeoutText, ErrorText}
        /\ i = Len(oplog) => (pc = "edit" /\ pending.content = TimeoutMsg)
        /\ i < Len(oplog) =>
              /\ oplog[i + 1].op = "edit" /\ oplog[i + 1].arg.content = TimeoutMsg
              /\ oplog[i + 1].res = "ok" =>
                    (Len(oplog) = i + 1 /\ pc = "done" /\ msgs[ackMsg].content = TimeoutMsg)
        /\ i + 1 < Len(oplog) =>
              /\ oplog[i + 2].op = "post" /\ oplog[i + 2].arg.content = TimeoutMsg
              /\ oplog[i + 2].res = "ok" =>
                    (Len(oplog) = i + 2 /\ pc = "done" /\ msgs[Len(msgs)].content = TimeoutMsg)
        /\ pc # "escaped"

\* the second fetch of /find timed out and the timeout message was delivered
C9_Witness ==
    /\ pc = "done"
    /\ \E i \in DOMAIN oplog : oplog[i].op = "fetch_up" /\ TimedOutAt(i)
    /\ \E k \in DOMAIN msgs : msgs[k].content = TimeoutMsg

(***************************************************************************)
(* Properties of filter_matches                                            *)
(***************************************************************************)
FilterFields == {"team1", "team2", "event", "region"}
TextOf(f) == IF f.t = "str" THEN f.s ELSE <<>>
NeedleIn(m, needle) ==
    \E k \in FilterFields : Contains(Lower(TextOf(Get(m, k))), Lower(needle))
Matching(ms, needle) == SelectSeq(ms, LAMBDA m : NeedleIn(m, needle))
FilterReturnsMatching ==
    /\ ~fnOut.raised
    /\ fnOut.out = Matching(fnIn.matches, fnIn.needle)
    /\ fnIn.needle = <<>> => fnOut.out = fnIn.matches

\* C13: filter_matches(ms, needle) returns exactly the records of ms for
\* which the lower-cased needle is a substring of the lower-cased team1, team2,
\* event or region taken one at a time, in their original order and with
\* duplicates kept; with an empty needle it returns all of ms.
C13_FilterReturnsMatching ==
    (fnIn.fn = "filter_matches" /\ fnOut.done) => FilterReturnsMatching

(***************************************************************************)
(* Properties of /find                                                     *)
(***************************************************************************)
Range(f) == {f[i] : i \in DOMAIN f}
ListAll == fnIn.fn = "find_matches" /\ Lower(Strip(fnIn.query)) \in {<<"*">>, <<"a", "l", "l">>}
UpRecords == NormalizeAll(fnIn.up, PyBool(FALSE))
LiveRecords == NormalizeAll(fnIn.live, PyBool(TRUE))
\* the upcoming record an embed was made from
ShownRecord(e) == CHOOSE r \in Range(UpRecords) : Get(r, "url") = e.url
Earlier(a, b) == KeyLess(SortKey(a), SortKey(b))

\* C14: /find with query "*" (or "all", after trimming and lower-casing)
\* delivers at most 10 matches, all of the upcoming fetch and none of the
\* live fetch, sorted ascending by time_unix, and no keyword filter is
\* applied: the matches shown are the 10 earliest upcoming ones.
C14_ListAllShowsEarliestUpcoming ==
    (ListAll /\ fnOut.done /\ ~fnOut.res.raises) =>
        LET shown == fnOut.res.embeds
        IN /\ Len(shown) <= 10
           /\ Len(shown) = (IF Len(UpRecords) < 10 THEN Len(UpRecords) ELSE 10)
           /\ \A i \in DOMAIN shown :
                /\ \E r \in Range(UpRecords) : Get(r, "url") = shown[i].url
                /\ \A l \in Range(LiveRecords) : Get(l, "url") # shown[i].url
                /\ ~shown[i].live
           /\ \A i, j \in DOMAIN shown :
                /\ i # j => shown[i].url # shown[j].url
                /\ i < j => ~Earlier(ShownRecord(shown[j]), ShownRecord(shown[i]))
           /\ \A r \in Range(UpRecords) :
                (\A i \in DOMAIN shown : shown[i].url # Get(r, "url"))
                    => \A i \in DOMAIN shown : ~Earlier(r, ShownRecord(shown[i]))

\* "ALL" with blanks around it, two live matches and eleven upcoming ones in
\* no order: ten were shown
C14_Witness ==
    /\ ListAll
    /\ fnIn.query = <<" ", "A", "L", "L", " ">>
    /\ fnOut.done
    /\ ~fnOut.res.raises
    /\ Len(LiveRecords) = 2
    /\ Len(UpRecords) = 11
    /\ Len(fnOut.res.embeds) = 10
    /\ \E i \in 1..10 : Earlier(UpRecords[i + 1], UpRecords[i])
(***************************************************************************)
(* Properties of fmt_delta                                                 *)
(***************************************************************************)
\* C15: for every integer secondsUntilStart, fmt_delta returns "now" when the
\* value is <= 0, "{m}m" with m = value div 60 when 0 < value < 3600, and
\* "{h}h {m}m" with h = value div 3600 and m = (value mod 3600) div 60
\* otherwise; 0 gives "now", 125 gives "2m" and 3725 gives "1h 2m".
C15_Countdown ==
    (fnIn.fn = "fmt_delta" /\ fnOut.done) =>
        LET v == fnIn.seconds
        IN /\ v <= 0 => fnOut.out = <<"n", "o", "w">>
           /\ (0 < v /\ v < 3600) => fnOut.out = IntToText(v \div 60) \o <<"m">>
           /\ v >= 3600 =>
                fnOut.out = IntToText(v \div 3600) \o <<"h", " ">>
                            \o IntToText((v % 3600) \div 60) \o <<"m">>
           /\ v = 125 => fnOut.out = <<"2", "m">>
           /\ v = 3725 => fnOut.out = <<"1", "h", " ", "2", "m">>

\* fmt_delta(0) returned "now"
C15_Witness ==
    /\ fnIn.fn = "fmt_delta"
    /\ fnIn.seconds = 0
    /\ fnOut.done
    /\ fnOut.out = <<"n", "o", "w">>
(***************************************************************************)
(* Properties of the scheduler interleaved with a command handler          *)
(***************************************************************************)
\* the step is one of the handler: it moves the handler or logs a call of it
HandlerStep == cmdVars' # cmdVars
\* the step is the loop iteration of a tick whose post succeeded
TickPosted ==
    /\ spc = "loop"
    /\ Len(posts') = Len(posts) + 1
    /\ posts'[Len(posts')].act = "sent"
    /\ announced' = announced \cup {posts'[Len(posts')].mid}

\* C19: the announced ids are empty at startup and only ever grow: under
\* every interleaving of scheduler ticks and command handlers at their
\* suspension points each step leaves the set a superset of what it was,
\* only the scheduler tick adds to it, and command handlers leave it as it is.
C19_AnnouncedOnlyGrows ==
    /\ announced = {}
    /\ [][ /\ announced \subseteq announced'
           /\ announced' # announced => TickPosted
           /\ HandlerStep => announced' = announced ]_vars

\* the handler is suspended in its fetch after its acknowledgement went out
\* while a tick, in its loop, has remembered one id and goes on to the next
C19_Witness ==
    /\ pc = "fetch_up"
    /\ msgs # <<>>
    /\ spc = "loop"
    /\ todo = 2
    /\ Cardinality(announced) = 1
====
